---- MODULE Spec2Model ----
(***************************************************************************)
(* komoperm: ranking and unranking of permutations with duplicates.        *)
(*                                                                         *)
(* The library is a family of constexpr pure functions over a template     *)
(* parameter pack Vals... .  The model keeps the pack, the objects         *)
(* deduced from it (ItemCount list, Choose table) and the last call with   *)
(* everything that call touched (arguments, result, scratch buffers).      *)
(*                                                                         *)
(* C arrays are sequences (position i of the source is position i+1        *)
(* here); Choose::vals_ keeps the source's 0-based indices.                *)
(***************************************************************************)
EXTENDS Integers, Sequences, FiniteSets, TLC

VARIABLES Vals,      \* the template parameter pack Vals...
          phase,     \* "source" | "built" | "rejected" | "table"
          ics,       \* the ItemCount<T, Val, N, C>... pack of PermutationImpl
          choose_,   \* the Choose table (PermutationImpl::choose_ or a bare one)
          NDEBUG,    \* whether the build defines NDEBUG (assert is a no-op)
          call,      \* the last call: its name and the caller's arguments
          res,       \* what the last call returned or threw
          scratch    \* the call-local buffers as the call left them

vars == <<Vals, phase, ics, choose_, NDEBUG, call, res, scratch>>

----------------------------------------------------------------------------
(* Bounds of the model *)

\* largest symbol value; T{} (value-initialisation) is 0
MaxSym == 2
\* longest parameter pack of the codec specification
MaxN == 4
\* longest parameter pack of the construction-only specification
MaxBigN == 11
\* largest N of a bare Choose<T, N, M>
MaxChooseN == 5
\* how far beyond Size() operator[] is probed
ExtraIndex == 2
\* largest N of a bare ItemCount<T, Val, N, C>
MaxItemN == 4
\* how many positions of the array a bare ItemCount::Get fills are filled
\* before the call
MaxFilled == 2
\* width of std::size_t, scaled down so that overflow is reachable
SizeBits == 8

Symbols == 0..MaxSym
BigSymbols == 0..1

\* 2^n
RECURSIVE Pow2(_)
Pow2(n) == IF n = 0 THEN 1 ELSE 2 * Pow2(n - 1)

Modulus == Pow2(SizeBits)
\* std::numeric_limits<std::size_t>::max()
SizeMax == Modulus - 1

\* std::size_t arithmetic
Add(a, b) == (a + b) % Modulus
Sub(a, b) == (a - b + Modulus) % Modulus
Mul(a, b) == (a * b) % Modulus

Min(a, b) == IF a < b THEN a ELSE b
Max(a, b) == IF a < b THEN b ELSE a

\* sequences over S of length lo..hi
SeqsOf(S, lo, hi) == UNION {[1..n -> S] : n \in lo..hi}

\* n value-initialised elements
Zeros(n) == [i \in 1..n |-> 0]

----------------------------------------------------------------------------
(* Choose<T, N, M> *)

\* one iteration of the constructor's outer loop: row i from row i - 1
ChooseCtorRow(vals, i, M) ==
    [j \in 0..M |->
        IF j = 0 THEN 1
        ELSE IF j <= Min(i, M) THEN Add(vals[i - 1][j], vals[i - 1][j - 1])
        ELSE IF i < M /\ j = i + 1 THEN 1
        ELSE vals[i][j]]

RECURSIVE ChooseCtorLoop(_, _, _, _)
ChooseCtorLoop(vals, i, N, M) ==
    IF i >= N THEN vals
    ELSE ChooseCtorLoop([vals EXCEPT ![i] = ChooseCtorRow(vals, i, M)],
                        i + 1, N, M)

\* Choose(): T vals_[N][M + 1]{} filled by Pascal's rule
ChooseCtor(N, M) ==
    [N |-> N, M |-> M,
     vals_ |-> ChooseCtorLoop([i \in 0..(N - 1) |-> [j \in 0..M |-> 0]], 0, N, M)]

\* ChooseGet testing the range before it tests m > n
ChooseGet_RangeFirst(c, n, m) ==
    IF n > c.N \/ m > c.M THEN [st |-> "OutOfRange", val |-> 0]
    ELSE IF m > n THEN [st |-> "ok", val |-> 0]
    ELSE IF n = 0 THEN [st |-> "ub", val |-> 0]
    ELSE [st |-> "ok", val |-> c.vals_[n - 1][m]]

\* Choose::Get.  st = "ub" is the read of vals_[n - 1][m] with n = 0, which
\* is outside the array.
ChooseGet(c, n, m) ==
    IF m > n THEN [st |-> "ok", val |-> 0]
    ELSE IF n > c.N \/ m > c.M THEN [st |-> "OutOfRange", val |-> 0]
    ELSE IF n = 0 THEN [st |-> "ub", val |-> 0]
    ELSE [st |-> "ok", val |-> c.vals_[n - 1][m]]

\* what a caller can observe of a lookup: an out-of-bounds read yields any
\* value of T or a crash
ChooseGetOutcomes(c, n, m) ==
    LET r == ChooseGet(c, n, m)
    IN  IF r.st = "ub"
        THEN {[st |-> "ok", val |-> v] : v \in 0..SizeMax}
             \cup {[st |-> "crash", val |-> 0]}
        ELSE {r}

\* ChooseMetaFunc<N, M>::value (std::size_t arithmetic).  <0, 0> matches
\* three partial specialisations and does not compile; ItemCount never
\* instantiates it (N >= C >= 1).
RECURSIVE ChooseMetaValue(_, _)
ChooseMetaValue(N, M) ==
    IF M = 0 THEN 1
    ELSE IF N = 0 THEN 0
    ELSE IF N = M THEN 1
    ELSE Add(ChooseMetaValue(N - 1, M), ChooseMetaValue(N - 1, M - 1))

\* the instantiations of ChooseMetaFunc: each <N, M>::value is computed once,
\* at compile time
ChooseMetaInstances ==
    [N \in 0..Max(MaxN, MaxBigN) |->
        [M \in 0..Max(MaxN, MaxBigN) |-> ChooseMetaValue(N, M)]]

\* ChooseMetaFunc<N, M>::value as the code reads it
ChooseMetaFunc(N, M) == ChooseMetaInstances[N][M]

----------------------------------------------------------------------------
(* Copy, AnyOf, MergeSort, UniqueCount *)

\* Copy(in_begin, in_end, out_begin): out with in written over its front
Copy(in, out) ==
    [i \in 1..Len(out) |-> IF i <= Len(in) THEN in[i] ELSE out[i]]

AnyOf(list) == \E i \in 1..Len(list) : list[i]

\* the merge loop of MergeSort: takes from the left run only when *li < *ri
RECURSIVE Merge(_, _)
Merge(l, r) ==
    IF l = <<>> THEN r
    ELSE IF r = <<>> THEN l
    ELSE IF Head(l) < Head(r) THEN <<Head(l)>> \o Merge(Tail(l), r)
    ELSE <<Head(r)>> \o Merge(l, Tail(r))

RECURSIVE MergeSort(_)
MergeSort(s) ==
    IF Len(s) <= 1 THEN s
    ELSE LET mid == Len(s) \div 2
         IN  Merge(MergeSort(SubSeq(s, 1, mid)),
                   MergeSort(SubSeq(s, mid + 1, Len(s))))

\* UniqueCount counting the runs of the pack as written, without sorting it
UniqueCount_Unsorted(vs) ==
    IF Len(vs) = 0 THEN 0
    ELSE 1 + Cardinality({i \in 2..Len(vs) : vs[i - 1] # vs[i]})

\* UniqueCount<T, Vals...>()
UniqueCount(vs) ==
    IF Len(vs) = 0 THEN 0
    ELSE LET sorted == MergeSort(vs)
         IN  1 + Cardinality({i \in 2..Len(vs) : sorted[i - 1] # sorted[i]})

----------------------------------------------------------------------------
(* MakeItemCountsImplCalc, MakePermutationImpl *)

\* the outer loop of MakeItemCountsImplCalc from position i (0-based) on
RECURSIVE MakeItemCountsLoop(_, _, _, _, _, _)
MakeItemCountsLoop(vals, i, visited, remains, max_idx, ret) ==
    IF i >= Len(vals) THEN [ret |-> ret, remains |-> remains, max_idx |-> max_idx]
    ELSE IF i \in visited
    THEN MakeItemCountsLoop(vals, i + 1, visited, remains, max_idx, ret)
    ELSE LET same == {j \in (i + 1)..(Len(vals) - 1) : vals[i + 1] = vals[j + 1]}
             count == 1 + Cardinality(same)
         IN  MakeItemCountsLoop(vals, i + 1, visited \cup {i} \cup same,
                                remains - count, max_idx + 1,
                                [values  |-> [ret.values  EXCEPT ![max_idx + 1] = vals[i + 1]],
                                 remains |-> [ret.remains EXCEPT ![max_idx + 1] = remains],
                                 counts  |-> [ret.counts  EXCEPT ![max_idx + 1] = count]])

\* MakeItemCountsImplCalc<T, Vals...>(): the ItemArray and the values its two
\* assertions look at
MakeItemCountsImplCalc(vals) ==
    LET u == UniqueCount(vals)
    IN  MakeItemCountsLoop(vals, 0, {}, Len(vals), 0,
                           [values |-> Zeros(u), remains |-> Zeros(u), counts |-> Zeros(u)])

\* std::max({kValue.counts[Indices]...})
RECURSIVE MaxOf(_)
MaxOf(s) == IF Len(s) = 1 THEN s[1] ELSE Max(s[1], MaxOf(Tail(s)))

\* MakeICs decomposing the sorted pack instead of the pack as written
MakeICs_Sorted(vals) ==
    LET k == MakeItemCountsImplCalc(MergeSort(vals)).ret
    IN  [I \in 1..UniqueCount(vals) |->
            [Val |-> k.values[I], N |-> k.remains[I], C |-> k.counts[I]]]

\* the ItemCount<T, values[I], remains[I], counts[I]>... pack
MakeICs(vals) ==
    LET k == MakeItemCountsImplCalc(vals).ret
    IN  [I \in 1..UniqueCount(vals) |->
            [Val |-> k.values[I], N |-> k.remains[I], C |-> k.counts[I]]]

\* MakePermutationImpl<ValueSet<T, Vals...>, index_sequence<...>>::type:
\* PermutationImpl<T, sizeof...(Vals), max(counts), ItemCount...> and its
\* default-initialised member choose_
MakePermutationImplType(vals) ==
    [ics |-> MakeICs(vals),
     choose_ |-> ChooseCtor(Len(vals), MaxOf(MakeItemCountsImplCalc(vals).ret.counts))]

\* the instantiations for the packs of the codec specification: the type of
\* a pack is deduced once, at compile time
PermutationImplTypes ==
    [vs \in SeqsOf(Symbols, 1, MaxN) |-> MakePermutationImplType(vs)]

\* the type, and the default-initialised table, that a pack names
MakePermutationImpl(vals) ==
    IF vals \in DOMAIN PermutationImplTypes THEN PermutationImplTypes[vals]
    ELSE MakePermutationImplType(vals)

----------------------------------------------------------------------------
(* ItemCount<T, Val, N, C> *)

\* ItemCountSize forgetting the slot the symbol itself starts in
ItemCountSize_Short(ic) == ChooseMetaFunc(ic.N - 1, ic.C)

\* ItemCount::Size
ItemCountSize(ic) == ChooseMetaFunc(ic.N, ic.C)

\* ItemCountIsOk accepting too few occurrences
ItemCountIsOk_AtMost(ic, s) == Cardinality({i \in 1..Len(s) : s[i] = ic.Val}) <= ic.C

\* ItemCount::IsOk(begin, end)
ItemCountIsOk(ic, s) == Cardinality({i \in 1..Len(s) : s[i] = ic.Val}) = ic.C

\* the lookup both IndexImpl and Get make at slot i: choose.Get(N - i - 1,
\* remain_cnt - 1)
ItemCountLookup(ic, c, i, remain_cnt) ==
    ChooseGet(c, Sub(Sub(ic.N, i), 1), remain_cnt - 1)

\* ItemCountIndexTerm looking one slot too far to the left
ItemCountIndexTerm_OffByOne(ic, c, i, remain_cnt) ==
    IF remain_cnt > 0 THEN ChooseGet(c, ic.N - i, remain_cnt - 1)
    ELSE [st |-> "ok", val |-> 0]

\* what ItemCount::IndexImpl adds to ret at a slot that does not hold Val
ItemCountIndexTerm(ic, c, i, remain_cnt) ==
    IF remain_cnt > 0 THEN ItemCountLookup(ic, c, i, remain_cnt)
    ELSE [st |-> "ok", val |-> 0]

\* the arguments of the lookup made at slot i
ItemCountLookupArgs(ic, i, remain_cnt) ==
    <<Sub(Sub(ic.N, i), 1), remain_cnt - 1>>

\* the loop of ItemCount::IndexImpl from i on; out is out_itr - buffer.begin().
\* fault records a lookup that threw or read outside the table (the function
\* is noexcept), lookups the arguments of the calls of choose.Get.
RECURSIVE ItemCountIndexLoop(_, _, _, _, _, _, _, _, _)
ItemCountIndexLoop(ic, c, i, buffer, out, ret, remain_cnt, fault, lookups) ==
    IF i >= ic.N
    THEN [ret |-> ret, buffer |-> buffer, fault |-> fault, lookups |-> lookups]
    ELSE IF buffer[i + 1] = ic.Val
    THEN ItemCountIndexLoop(ic, c, i + 1, buffer, out, ret, Sub(remain_cnt, 1),
                            fault, lookups)
    ELSE LET g == ItemCountIndexTerm(ic, c, i, remain_cnt)
         IN  ItemCountIndexLoop(ic, c, i + 1,
                                [buffer EXCEPT ![out + 1] = buffer[i + 1]],
                                out + 1, Add(ret, g.val), remain_cnt,
                                fault \/ g.st # "ok",
                                IF remain_cnt > 0
                                THEN lookups \cup {ItemCountLookupArgs(ic, i, remain_cnt)}
                                ELSE lookups)

\* ItemCountIndexImpl leaving the first slot out
ItemCountIndexImpl_FromOne(ic, c, buffer) ==
    ItemCountIndexLoop(ic, c, 1, buffer, 0, 0, ic.C, FALSE, {})

\* ItemCount::IndexImpl(choose, buffer): the rank and the compacted buffer
ItemCountIndexImpl(ic, c, buffer) ==
    ItemCountIndexLoop(ic, c, 0, buffer, 0, 0, ic.C, FALSE, {})

\* ItemCountGetForced not forcing the symbol when the copies left exactly
\* fill the slots left
ItemCountGetForced_Gt(ic, i, remain_cnt) == remain_cnt > Sub(ic.N, i)

\* the first operand of the || in ItemCount::Get: the slot must take Val
ItemCountGetForced(ic, i, remain_cnt) == remain_cnt >= Sub(ic.N, i)

\* ItemCountGetTakes comparing with <= instead of <
ItemCountGetTakes_Le(ic, c, index, i, remain_cnt) ==
    \/ ItemCountGetForced(ic, i, remain_cnt)
    \/ index <= ItemCountLookup(ic, c, i, remain_cnt).val

\* the condition under which ItemCount::Get writes Val into unfilled slot i
ItemCountGetTakes(ic, c, index, i, remain_cnt) ==
    \/ ItemCountGetForced(ic, i, remain_cnt)
    \/ index < ItemCountLookup(ic, c, i, remain_cnt).val

\* the loop of ItemCount::Get from (i, j) on
RECURSIVE ItemCountGetLoop(_, _, _, _, _, _, _, _, _)
ItemCountGetLoop(ic, c, index, array, filled, i, j, remain_cnt, fault) ==
    IF j >= Len(array)
    THEN [array |-> array, filled |-> filled, remain_cnt |-> remain_cnt,
          fault |-> fault]
    ELSE IF filled[j + 1]
    THEN ItemCountGetLoop(ic, c, index, array, filled, i, j + 1, remain_cnt, fault)
    ELSE IF remain_cnt = 0
    THEN ItemCountGetLoop(ic, c, index, array, filled, i + 1, j + 1, remain_cnt, fault)
    ELSE LET g == ItemCountLookup(ic, c, i, remain_cnt)
             f == fault \/ (~ItemCountGetForced(ic, i, remain_cnt) /\ g.st # "ok")
         IN  IF ItemCountGetTakes(ic, c, index, i, remain_cnt)
             THEN ItemCountGetLoop(ic, c, index,
                                   [array EXCEPT ![j + 1] = ic.Val],
                                   [filled EXCEPT ![j + 1] = TRUE],
                                   i + 1, j + 1, remain_cnt - 1, f)
             ELSE ItemCountGetLoop(ic, c, Sub(index, g.val), array, filled,
                                   i + 1, j + 1, remain_cnt, f)

\* ItemCount::Get(choose, index, array, filled); remain_cnt is what the
\* closing assert(remain_cnt == 0) looks at
ItemCountGet(ic, c, index, array, filled) ==
    ItemCountGetLoop(ic, c, index, array, filled, 0, 0, ic.C, FALSE)

----------------------------------------------------------------------------
(* PermutationImpl<T, N, M, ICs...> *)

NoIndex == -1

\* the ConsumeValues loop of SizeImpl from ICs[k] on.  ok is FALSE when an
\* enabled assert does not hold (its division by ret = 0 included).
RECURSIVE SizeImplLoop(_, _, _, _)
SizeImplLoop(allics, k, ret, ndebug) ==
    IF k > Len(allics) THEN [ret |-> ret, ok |-> TRUE]
    ELSE IF ~ndebug /\ (ret = 0 \/ ~((SizeMax \div ret) > ItemCountSize(allics[k])))
    THEN [ret |-> ret, ok |-> FALSE]
    ELSE SizeImplLoop(allics, k + 1, Mul(ret, ItemCountSize(allics[k])), ndebug)

\* PermutationImpl::SizeImpl
SizeImpl(allics, ndebug) == SizeImplLoop(allics, 1, 1, ndebug)

\* static_assert(SizeImpl() < numeric_limits<size_t>::max()): the class
\* compiles only if SizeImpl() is a constant expression below the maximum
StaticAssert(allics, ndebug) ==
    LET s == SizeImpl(allics, ndebug) IN s.ok /\ s.ret < SizeMax

\* what a call leaves behind: status, returned index, returned array, the
\* caller's container, and the local buffers
Outcome(st, index, array, vals, tmp_vals, filled) ==
    [st |-> st, index |-> index, array |-> array, vals |-> vals,
     tmp_vals |-> tmp_vals, filled |-> filled]

\* PermutationImpl::Size
Size(allics, ndebug) ==
    LET s == SizeImpl(allics, ndebug)
    IN  Outcome(IF s.ok THEN "ok" ELSE "abort",
                IF s.ok THEN s.ret ELSE NoIndex, <<>>, <<>>, <<>>, <<>>)

\* IndexImplLoop giving every entry the weight 1
RECURSIVE IndexImplLoop_UnitBase(_, _, _, _, _, _, _)
IndexImplLoop_UnitBase(allics, c, k, tmp_vals, index, base, fault) ==
    IF k > Len(allics)
    THEN [index |-> index, tmp_vals |-> tmp_vals, fault |-> fault]
    ELSE LET r == ItemCountIndexImpl(allics[k], c, tmp_vals)
         IN  IndexImplLoop_UnitBase(allics, c, k + 1, r.buffer,
                                    Add(index, Mul(base, r.ret)), base,
                                    fault \/ r.fault)

\* the ConsumeValues loop of PermutationImpl::IndexImpl from ICs[k] on
RECURSIVE IndexImplLoop(_, _, _, _, _, _, _)
IndexImplLoop(allics, c, k, tmp_vals, index, base, fault) ==
    IF k > Len(allics)
    THEN [index |-> index, tmp_vals |-> tmp_vals, fault |-> fault]
    ELSE LET r == ItemCountIndexImpl(allics[k], c, tmp_vals)
         IN  IndexImplLoop(allics, c, k + 1, r.buffer,
                           Add(index, Mul(base, r.ret)),
                           Mul(base, ItemCountSize(allics[k])),
                           fault \/ r.fault)

\* PermutationImpl::IndexImpl(tmp_vals); vals is the caller's container
IndexImpl(allics, c, vals, tmp_vals) ==
    IF AnyOf([k \in 1..Len(allics) |-> ~ItemCountIsOk(allics[k], tmp_vals)])
    THEN Outcome("InvalidInput", NoIndex, <<>>, vals, tmp_vals, <<>>)
    ELSE LET r == IndexImplLoop(allics, c, 1, tmp_vals, 0, 1, FALSE)
         IN  Outcome(IF r.fault THEN "fault" ELSE "ok",
                     IF r.fault THEN NoIndex ELSE r.index,
                     <<>>, vals, r.tmp_vals, <<>>)

\* Index ranking the caller's container in place, without the copy
Index_InPlace(allics, c, vals) ==
    IF Len(vals) # c.N
    THEN Outcome("InvalidInput", NoIndex, <<>>, vals, <<>>, <<>>)
    ELSE LET r == IndexImpl(allics, c, vals, vals)
         IN  [r EXCEPT !.vals = r.tmp_vals]

\* PermutationImpl::Index(const Container& vals)
Index(allics, c, vals) ==
    IF Len(vals) # c.N
    THEN Outcome("InvalidInput", NoIndex, <<>>, vals, <<>>, <<>>)
    ELSE IndexImpl(allics, c, vals, Copy(vals, Zeros(c.N)))

\* binding a braced list of at most N elements to const T (&)[N]: the missing
\* elements are value-initialised
BraceInit(list, N) == list \o Zeros(N - Len(list))

\* PermutationImpl::Index(const T (&vals)[N]) called with a braced list
IndexArray(allics, c, list) ==
    LET vals == BraceInit(list, c.N)
        r == IndexImpl(allics, c, vals, Copy(vals, Zeros(c.N)))
    IN  [r EXCEPT !.vals = list]

\* the ConsumeValues loop of operator[] from ICs[k] on
RECURSIVE GetLoop(_, _, _, _, _, _, _)
GetLoop(allics, c, k, index, ret, filled, bad) ==
    IF k > Len(allics)
    THEN [ret |-> ret, filled |-> filled, bad |-> bad]
    ELSE IF ItemCountSize(allics[k]) = 0
    THEN [ret |-> ret, filled |-> filled, bad |-> TRUE]
    ELSE LET r == ItemCountGet(allics[k], c, index % ItemCountSize(allics[k]),
                               ret, filled)
         IN  GetLoop(allics, c, k + 1, index \div ItemCountSize(allics[k]),
                     r.array, r.filled, bad \/ r.fault \/ r.remain_cnt # 0)

\* operator[] letting index == Size() through
Get_Gt(allics, c, ndebug, index) ==
    IF ~Size(allics, ndebug).st = "ok"
    THEN Outcome("abort", NoIndex, <<>>, <<>>, <<>>, <<>>)
    ELSE IF index > Size(allics, ndebug).index
    THEN Outcome("OutOfRange", NoIndex, <<>>, <<>>, <<>>, <<>>)
    ELSE LET r == GetLoop(allics, c, 1, index, Zeros(c.N),
                          [i \in 1..c.N |-> FALSE], FALSE)
         IN  Outcome(IF r.bad THEN "fault" ELSE "ok", NoIndex,
                     IF r.bad THEN <<>> ELSE r.ret, <<>>, <<>>, r.filled)

\* PermutationImpl::operator[](index)
Get(allics, c, ndebug, index) ==
    IF ~Size(allics, ndebug).st = "ok"
    THEN Outcome("abort", NoIndex, <<>>, <<>>, <<>>, <<>>)
    ELSE IF index >= Size(allics, ndebug).index
    THEN Outcome("OutOfRange", NoIndex, <<>>, <<>>, <<>>, <<>>)
    ELSE LET r == GetLoop(allics, c, 1, index, Zeros(c.N),
                          [i \in 1..c.N |-> FALSE], FALSE)
         IN  Outcome(IF r.bad THEN "fault" ELSE "ok", NoIndex,
                     IF r.bad THEN <<>> ELSE r.ret, <<>>, <<>>, r.filled)

----------------------------------------------------------------------------
(* The codec: a constructed Permutation<T, Vals...> and calls on it *)

\* parameter packs of the codec specification
Specs == SeqsOf(Symbols, 1, MaxN)

\* arg is the container as the caller passed it, vals the same container
\* after the call
NoCall == [op |-> "none", index |-> NoIndex, arg |-> <<>>, vals |-> <<>>,
           n |-> NoIndex, m |-> NoIndex, filled |-> <<>>]
NoRes == Outcome("none", NoIndex, <<>>, <<>>, <<>>, <<>>)

ResOf(o) == [st |-> o.st, index |-> o.index, array |-> o.array]
ScratchOf(o) == [tmp_vals |-> o.tmp_vals, filled |-> o.filled]

\* the arrangements of the pack
Arrangements(vs) ==
    {[i \in 1..Len(vs) |-> vs[f[i]]] : f \in Permutations(1..Len(vs))}

\* the pack with one position overwritten by any symbol
Edits(vs) == {[vs EXCEPT ![i] = v] : i \in 1..Len(vs), v \in Symbols}

\* the prefixes, the empty and the full one included, of the members of S
Prefixes(S, N) == {SubSeq(p, 1, n) : p \in S, n \in 0..N}

\* containers Index is called with: every arrangement, ill-formed sequences
\* of length N, and containers shorter and longer than N
ContainerArgs(vs) ==
    Arrangements(vs) \cup Edits(vs) \cup Prefixes({vs}, Len(vs))
        \cup {vs \o <<v>> : v \in Symbols}

\* braced lists Index is called with: every arrangement and every list that
\* stops short of the pack
ListArgs(vs) == Arrangements(vs) \cup Prefixes({vs}, Len(vs))

\* the codec specification follows the test build, which keeps assert
Init ==
    /\ Vals \in Specs
    /\ NDEBUG = FALSE
    /\ StaticAssert(MakePermutationImpl(Vals).ics, NDEBUG)
    /\ phase = "built"
    /\ ics = MakePermutationImpl(Vals).ics
    /\ choose_ = MakePermutationImpl(Vals).choose_
    /\ call = NoCall
    /\ res = ResOf(NoRes)
    /\ scratch = ScratchOf(NoRes)

\* a call is made by a caller that holds no result
Idle == phase = "built" /\ call.op = "none"

\* the caller's arguments stay in call as the call left them
Return(op, index, arg, o) ==
    /\ call' = [NoCall EXCEPT !.op = op, !.index = index, !.arg = arg,
                              !.vals = o.vals]
    /\ res' = ResOf(o)
    /\ scratch' = ScratchOf(o)

CallSize ==
    /\ Idle
    /\ Return("Size", NoIndex, <<>>, Size(ics, NDEBUG))
    /\ UNCHANGED <<Vals, phase, ics, choose_, NDEBUG>>

\* Index on a container
CallIndex ==
    /\ Idle
    /\ \E vals \in ContainerArgs(Vals) :
          Return("Index", NoIndex, vals, Index(ics, choose_, vals))
    /\ UNCHANGED <<Vals, phase, ics, choose_, NDEBUG>>

\* Index on a braced list; more than N initialisers do not compile
CallIndexArray ==
    /\ Idle
    /\ \E list \in ListArgs(Vals) :
          Return("IndexArray", NoIndex, list, IndexArray(ics, choose_, list))
    /\ UNCHANGED <<Vals, phase, ics, choose_, NDEBUG>>

CallGet ==
    /\ Idle
    /\ \E index \in (0..(Size(ics, NDEBUG).index + ExtraIndex)) \cup {SizeMax} :
          Return("Get", index, <<>>, Get(ics, choose_, NDEBUG, index))
    /\ UNCHANGED <<Vals, phase, ics, choose_, NDEBUG>>

\* the caller lets go of the arguments and the result of the last call
\* (the temporaries of one loop iteration of permutation_identity_test)
Drop ==
    /\ call.op # "none"
    /\ call' = NoCall
    /\ res' = ResOf(NoRes)
    /\ scratch' = ScratchOf(NoRes)
    /\ UNCHANGED <<Vals, phase, ics, choose_, NDEBUG>>

Next == CallSize \/ CallIndex \/ CallIndexArray \/ CallGet \/ Drop

Spec == Init /\ [][Next]_vars

\* the codec under Size and operator[] calls alone
NextGet == CallSize \/ CallGet \/ Drop

SpecGet == Init /\ [][NextGet]_vars

\* the codec under Index calls alone
NextIndex == CallIndex \/ CallIndexArray \/ Drop

SpecIndex == Init /\ [][NextIndex]_vars

----------------------------------------------------------------------------
(* A bare Choose<T, N, M> and lookups in it *)

InitChoose ==
    /\ \E N \in 1..MaxChooseN : \E M \in 0..N : choose_ = ChooseCtor(N, M)
    /\ phase = "table"
    /\ Vals = <<>>
    /\ ics = <<>>
    /\ NDEBUG = FALSE
    /\ call = NoCall
    /\ res = ResOf(NoRes)
    /\ scratch = ScratchOf(NoRes)

\* Choose::Get(n, m), probed past N and M, and with m past such an n
CallChooseGet ==
    /\ phase = "table"
    /\ call.op = "none"
    /\ \E n \in 0..(choose_.N + 1) : \E m \in 0..(choose_.N + 2) :
       \E r \in ChooseGetOutcomes(choose_, n, m) :
          /\ call' = [NoCall EXCEPT !.op = "ChooseGet", !.n = n, !.m = m]
          /\ res' = [st |-> r.st, index |-> IF r.st = "ok" THEN r.val ELSE NoIndex,
                     array |-> <<>>]
    /\ UNCHANGED <<Vals, phase, ics, choose_, NDEBUG, scratch>>

NextChoose == CallChooseGet \/ Drop

SpecChoose == InitChoose /\ [][NextChoose]_vars

----------------------------------------------------------------------------
(* Instantiating Permutation<T, Vals...>: which packs compile *)

BigSpecs == SeqsOf(BigSymbols, 1, MaxBigN)

NoTable == [N |-> 0, M |-> 0, vals_ |-> <<>>]

InitBuild ==
    /\ Vals \in BigSpecs
    /\ NDEBUG \in BOOLEAN
    /\ phase = "source"
    /\ ics = <<>>
    /\ choose_ = NoTable
    /\ call = NoCall
    /\ res = ResOf(NoRes)
    /\ scratch = ScratchOf(NoRes)

\* the compiler instantiates Permutation<T, Vals...> and evaluates the
\* static_assert of PermutationImpl; a codec exists only if it holds
Instantiate ==
    /\ phase = "source"
    /\ LET p == MakePermutationImpl(Vals)
       IN  IF StaticAssert(p.ics, NDEBUG)
           THEN /\ phase' = "built"
                /\ ics' = p.ics
                /\ choose_' = p.choose_
           ELSE /\ phase' = "rejected"
                /\ UNCHANGED <<ics, choose_>>
    /\ UNCHANGED <<Vals, NDEBUG, call, res, scratch>>

NextBuild == Instantiate \/ CallSize \/ Drop

SpecBuild == InitBuild /\ [][NextBuild]_vars

----------------------------------------------------------------------------
(* ItemCount<T, Val, N, C> on its own, with a table that is large enough,
   and the ItemCounts of a codec as operator[] drives them *)

\* the symbol that value-initialisation yields, and another one
ItemVals == {0, MaxSym}

\* the tables IndexImpl of an ItemCount<T, Val, N, C> accepts (N2 >= N,
\* M2 >= C): the smallest one and a roomier one
ItemTables(N, C) == {ChooseCtor(N, C), ChooseCtor(N + 1, N + 1)}

\* buffers IndexImpl is called with: N elements, and N elements followed by
\* one more that holds Val
ItemBuffers(ic) ==
    LET front == [1..ic.N -> Symbols]
    IN  front \cup {b \o <<ic.Val>> : b \in front}

\* bitmaps of length L with N positions not filled
Bitmaps(L, N) ==
    {f \in [1..L -> BOOLEAN] : Cardinality({j \in 1..L : ~f[j]}) = N}

InitItem ==
    /\ \E N \in 1..MaxItemN : \E C \in 0..N : \E Val \in ItemVals :
          /\ ics = <<[Val |-> Val, N |-> N, C |-> C]>>
          /\ choose_ \in ItemTables(N, C)
    /\ phase = "item"
    /\ Vals = <<>>
    /\ NDEBUG = FALSE
    /\ call = NoCall
    /\ res = ResOf(NoRes)
    /\ scratch = ScratchOf(NoRes)

\* ItemCount::IndexImpl(choose, buffer); call.vals is the buffer afterwards
CallItemIndex ==
    /\ phase = "item"
    /\ call.op = "none"
    /\ \E buffer \in ItemBuffers(ics[1]) :
          LET r == ItemCountIndexImpl(ics[1], choose_, buffer)
          IN  /\ call' = [NoCall EXCEPT !.op = "ItemIndex", !.arg = buffer,
                                        !.vals = r.buffer]
              /\ res' = [st |-> IF r.fault THEN "fault" ELSE "ok",
                         index |-> IF r.fault THEN NoIndex ELSE r.ret,
                         array |-> <<>>]
    /\ UNCHANGED <<Vals, phase, ics, choose_, NDEBUG, scratch>>

\* ItemCount::Get(choose, index, array, filled): call.arg and call.filled are
\* the array and the bitmap as passed, res.array and scratch.filled what the
\* call made of them; st = "abort" is the closing assert failing
CallItemGet ==
    /\ phase = "item"
    /\ call.op = "none"
    /\ \E L \in ics[1].N..(ics[1].N + MaxFilled) :
       \E filled \in Bitmaps(L, ics[1].N) :
       \E fill \in ItemVals :
       \E index \in 0..(ItemCountSize(ics[1]) - 1 + ExtraIndex) :
          LET array == [j \in 1..L |-> fill]
              r == ItemCountGet(ics[1], choose_, index, array, filled)
              st == IF r.fault THEN "fault"
                    ELSE IF ~NDEBUG /\ r.remain_cnt # 0 THEN "abort"
                    ELSE "ok"
          IN  /\ call' = [NoCall EXCEPT !.op = "ItemGet", !.index = index,
                                        !.arg = array, !.filled = filled]
              /\ res' = [st |-> st, index |-> NoIndex,
                         array |-> IF st = "ok" THEN r.array ELSE <<>>]
              /\ scratch' = [tmp_vals |-> <<>>,
                             filled |-> IF st = "ok" THEN r.filled ELSE <<>>]
    /\ UNCHANGED <<Vals, phase, ics, choose_, NDEBUG>>

\* a bare ItemCount, or the codec of a pack
InitItemOrCodec == InitItem \/ Init

NextItem == CallItemIndex \/ CallItemGet \/ CallGet \/ Drop

SpecItem == InitItemOrCodec /\ [][NextItem]_vars

----------------------------------------------------------------------------
(* Vocabulary of the properties *)

Range(s) == {s[i] : i \in 1..Len(s)}

\* number of occurrences of v in s
Count(s, v) == Cardinality({i \in 1..Len(s) : s[i] = v})

\* p and q hold the same symbols the same number of times
SameMultiset(p, q) ==
    \A v \in Range(p) \cup Range(q) : Count(p, v) = Count(q, v)

\* p is a rearrangement of q
IsRearrangement(p, q) == Len(p) = Len(q) /\ SameMultiset(p, q)

RECURSIVE Fact(_)
Fact(n) == IF n <= 1 THEN 1 ELSE n * Fact(n - 1)

\* C(n, m) over the integers
Binomial(n, m) == IF m > n THEN 0 ELSE Fact(n) \div (Fact(m) * Fact(n - m))

RECURSIVE FactProduct(_, _)
FactProduct(s, syms) ==
    IF syms = {} THEN 1
    ELSE LET v == CHOOSE x \in syms : TRUE
         IN  Fact(Count(s, v)) * FactProduct(s, syms \ {v})

\* N! / (c_1! * ... * c_k!) over the integers
Multinomial(s) == Fact(Len(s)) \div FactProduct(s, Range(s))

\* all copies of ICs[1]'s symbol, then all copies of ICs[2]'s symbol, ...
RECURSIVE Grouped(_)
Grouped(allics) ==
    IF allics = <<>> THEN <<>>
    ELSE [i \in 1..allics[1].C |-> allics[1].Val] \o Grouped(Tail(allics))

\* equal symbols of s are adjacent
EqualsAdjacent(s) ==
    \A i \in 1..Len(s) : \A j \in i..Len(s) : \A k \in j..Len(s) :
        s[i] = s[k] => s[j] = s[i]

IsIndexCall == phase = "built" /\ call.op \in {"Index", "IndexArray"}
IsGetCall == phase = "built" /\ call.op = "Get"

----------------------------------------------------------------------------
(* Properties of the codec *)

\* C1: for every pack and every i in [0, Size()), operator[](i) returns an
\* array and Index of that array is i.
C1_IndexOfGet ==
    (IsGetCall /\ call.index < Size(ics, NDEBUG).index) =>
        /\ res.st = "ok"
        /\ Index(ics, choose_, res.array).st = "ok"
        /\ Index(ics, choose_, res.array).index = call.index

C1_Witness ==
    /\ IsGetCall
    /\ Cardinality(Range(Vals)) = 3
    /\ call.index = Size(ics, NDEBUG).index - 1
    /\ res.st = "ok"
    /\ Index(ics, choose_, res.array).index = call.index

\* C2: for every rearrangement p of the pack, Index(p) returns a value in
\* [0, Size()) and operator[] of that value is p, element by element.
C2_GetOfIndex ==
    (IsIndexCall /\ IsRearrangement(call.arg, Vals)) =>
        /\ res.st = "ok"
        /\ 0 <= res.index
        /\ res.index < Size(ics, NDEBUG).index
        /\ Get(ics, choose_, NDEBUG, res.index).array = call.arg

C2_Witness ==
    /\ IsIndexCall
    /\ Cardinality(Range(Vals)) = 3
    /\ IsRearrangement(call.arg, Vals)
    /\ call.arg # Vals
    /\ res.st = "ok"
    /\ res.index > 0
    /\ Get(ics, choose_, NDEBUG, res.index).array = call.arg

\* C3: Size() is the multinomial coefficient N! / (c_1! * ... * c_k!) of the
\* pack's symbol counts, whatever the order of the pack.
C3_SizeIsMultinomial ==
    (phase = "built" /\ call.op = "Size") =>
        res.st = "ok" /\ res.index = Multinomial(Vals)

C3_Witness ==
    /\ phase = "built"
    /\ call.op = "Size"
    /\ Cardinality(Range(Vals)) = 3
    /\ ~EqualsAdjacent(Vals)
    /\ res.index = Multinomial(Vals)
    /\ res.index > 6

\* C4: for a sequence p of length N, Index(p) throws, and returns no index,
\* exactly when the multiset of p differs from the multiset of the pack.
C4_InvalidIffMultisetDiffers ==
    (IsIndexCall /\ Len(call.arg) = Len(Vals)) =>
        IF SameMultiset(call.arg, Vals)
        THEN res.st = "ok" /\ res.index # NoIndex
        ELSE res.st = "InvalidInput" /\ res.index = NoIndex

C4_Witness ==
    /\ IsIndexCall
    /\ Len(call.arg) = Len(Vals)
    /\ Range(call.arg) = Range(Vals)
    /\ ~SameMultiset(call.arg, Vals)
    /\ res.st = "InvalidInput"

\* C5: Index(p) throws for every p whose length differs from N, through the
\* container overload and through the array overload with a braced list.
C5_WrongLengthThrows ==
    (IsIndexCall /\ Len(call.arg) # Len(Vals)) =>
        res.st = "InvalidInput" /\ res.index = NoIndex

\* C6: operator[](index) throws, and returns no array, for every
\* index >= Size(), index == Size() included; below Size() it does not throw.
C6_GetRange ==
    IsGetCall =>
        IF call.index >= Size(ics, NDEBUG).index
        THEN res.st = "OutOfRange" /\ res.array = <<>>
        ELSE res.st = "ok" /\ Len(res.array) = Len(Vals)

C6_Witness ==
    /\ IsGetCall
    /\ call.index = Size(ics, NDEBUG).index
    /\ call.index > 1
    /\ res.st = "OutOfRange"

\* C7: no codec is constructed whose true size exceeds the largest
\* std::size_t, or whose Size() or table entries are wrapped-around values.
C7_NoWrappedCodec ==
    phase = "built" =>
        /\ Multinomial(Vals) <= SizeMax
        /\ SizeImpl(ics, TRUE).ret = Multinomial(Vals)
        /\ \A k \in 1..Len(ics) : ItemCountSize(ics[k]) = Binomial(ics[k].N, ics[k].C)
        /\ \A n \in 1..choose_.N : \A m \in 0..Min(n, choose_.M) :
              choose_.vals_[n - 1][m] = Binomial(n, m)

C9_FirstArrangement ==
    (IsGetCall /\ call.index = 0) =>
        /\ res.st = "ok"
        /\ res.array = Grouped(ics)
        /\ Index(ics, choose_, Grouped(ics)).index = 0
        /\ EqualsAdjacent(Vals) => res.array = Vals

C9_Witness ==
    /\ IsGetCall
    /\ call.index = 0
    /\ Cardinality(Range(Vals)) = 3
    /\ EqualsAdjacent(Vals)
    /\ Vals # MergeSort(Vals)
    /\ res.array = Vals

----------------------------------------------------------------------------
(* Properties of the Choose table *)

IsChooseCall == phase = "table" /\ call.op = "ChooseGet"

\* C10: Get(n, m) is C(n, m) for every 0 <= m <= n <= N with m <= M, n = 0
\* included (Get(0, 0) = 1), and 0 when m > n.
C10_GetIsBinomial ==
    IsChooseCall =>
        /\ (call.m <= call.n /\ call.n <= choose_.N /\ call.m <= choose_.M) =>
              res.st = "ok" /\ res.index = Binomial(call.n, call.m)
        /\ call.m > call.n => res.st = "ok" /\ res.index = 0

\* C11 as stated: Get(n, m) throws OutOfRange, and returns no value, for
\* every query with n > N or m > M, those with m > n included.
C11_OutOfRangeAlways ==
    (IsChooseCall /\ (call.n > choose_.N \/ call.m > choose_.M)) =>
        res.st = "OutOfRange" /\ res.index = NoIndex

\* C11: Get(n, m) throws OutOfRange, and returns no value, for every query
\* with m <= n and (n > N or m > M); a query with m > n returns 0 whether
\* or not n > N or m > M.
C11_OutOfRangeUnlessEmpty ==
    (IsChooseCall /\ (call.n > choose_.N \/ call.m > choose_.M)) =>
        IF call.m > call.n
        THEN res.st = "ok" /\ res.index = 0
        ELSE res.st = "OutOfRange" /\ res.index = NoIndex

C11_Witness ==
    /\ IsChooseCall
    /\ choose_.M < choose_.N
    /\ call.n = choose_.N
    /\ call.m = choose_.M + 1
    /\ res.st = "OutOfRange"
    /\ res.index = NoIndex

----------------------------------------------------------------------------
(* Properties of the decomposition *)

\* the distinct symbols of s in the order they first appear in s
RECURSIVE FirstOccurrences(_)
FirstOccurrences(s) ==
    IF s = <<>> THEN <<>>
    ELSE LET Other(x) == x # s[1]
         IN  <<s[1]>> \o FirstOccurrences(SelectSeq(Tail(s), Other))

\* the symbols of the entries, in entry order
EntryValues(allics) == [k \in 1..Len(allics) |-> allics[k].Val]

\* the codec a pack is compiled to
CodecOf(vs) == MakePermutationImpl(vs)

\* C12 as stated: the entries are in the sorted order of the symbols, not in
\* the order the symbols first appear, so every rearrangement of the pack
\* gives the same entry list and the same Index/operator[] mapping.
C12_SortedEntries ==
    phase = "built" =>
        /\ EntryValues(ics) = FirstOccurrences(MergeSort(Vals))
        /\ call.op = "none" =>
              \A w \in Arrangements(Vals) :
                  CodecOf(w) = [ics |-> ics, choose_ |-> choose_]

\* C12: the entries are in the order the symbols first appear in the pack,
\* not in a sorted order; two packs that are rearrangements of one multiset
\* and in which the symbols first appear in the same order give the same
\* entry list and the same Index/operator[] mapping: they name the same
\* PermutationImpl type, and operator[] of the pack returns what operator[]
\* of the grouped pack returns.
C12_FirstAppearanceEntries ==
    phase = "built" =>
        /\ EntryValues(ics) = FirstOccurrences(Vals)
        /\ call.op = "none" =>
              \A w \in Arrangements(Vals) :
                  FirstOccurrences(w) = FirstOccurrences(Vals) =>
                      CodecOf(w) = [ics |-> ics, choose_ |-> choose_]
        /\ call.op = "Get" =>
              LET g == CodecOf(Grouped(ics))
              IN  res = ResOf(Get(g.ics, g.choose_, NDEBUG, call.index))

\* a pack that is neither sorted nor grouped, and an arrangement decoded by
\* its codec as by the codec of the grouped pack
C12_Witness ==
    /\ IsGetCall
    /\ res.st = "ok"
    /\ Cardinality(Range(Vals)) = 3
    /\ EntryValues(ics) = FirstOccurrences(Vals)
    /\ EntryValues(ics) # FirstOccurrences(MergeSort(Vals))
    /\ Grouped(ics) # Vals
    /\ FirstOccurrences(Grouped(ics)) = FirstOccurrences(Vals)
    /\ res.array # Grouped(ics)
    /\ LET g == CodecOf(Grouped(ics))
       IN  res = ResOf(Get(g.ics, g.choose_, NDEBUG, call.index))

\* the counts of the first k entries added up
RECURSIVE SumOfCounts(_, _)
SumOfCounts(allics, k) ==
    IF k = 0 THEN 0 ELSE SumOfCounts(allics, k - 1) + allics[k].C

----------------------------------------------------------------------------
(* Properties of the composition of the per-symbol ranks *)

\* p with every symbol of the first k entries deleted, the rest in order
Without(allics, k, p) ==
    LET Later(x) == \A j \in 1..k : allics[j].Val # x
    IN  SelectSeq(p, Later)

\* the rank of entry k's symbol in p without the symbols of earlier entries
RankOf(allics, c, k, p) ==
    ItemCountIndexImpl(allics[k], c, Without(allics, k - 1, p)).ret

\* Size_1 * ... * Size_k over the integers
RECURSIVE SizeProduct(_, _)
SizeProduct(allics, k) ==
    IF k = 0 THEN 1 ELSE SizeProduct(allics, k - 1) * ItemCountSize(allics[k])

\* rank_1 + Size_1 * rank_2 + ... + Size_1 * ... * Size_(k-1) * rank_k
RECURSIVE RadixSum(_, _, _, _)
RadixSum(allics, c, k, p) ==
    IF k = 0 THEN 0
    ELSE RadixSum(allics, c, k - 1, p)
            + RankOf(allics, c, k, p) * SizeProduct(allics, k - 1)

\* every ranking step from entry k on, started on buf, leaves the elements of
\* p that are not a symbol of the entries up to it in order at the front of
\* the working buffer, and the last one leaves the buffer last
RECURSIVE StepsCompact(_, _, _, _, _, _)
StepsCompact(allics, c, k, buf, p, last) ==
    IF k > Len(allics) THEN buf = last
    ELSE LET r == ItemCountIndexImpl(allics[k], c, buf)
         IN  /\ SubSeq(r.buffer, 1, allics[k].N - allics[k].C)
                    = Without(allics, k, p)
             /\ StepsCompact(allics, c, k + 1, r.buffer, p, last)

\* C14: for every arrangement p of the pack, Index(p) is the sum over the
\* entries k of rank_k times the product of the sizes of the entries before
\* k, where rank_k is the rank of entry k's symbol in p with the symbols of
\* the earlier entries deleted; each ranking step leaves the elements that
\* are not its symbol in order at the front of the working buffer.
C14_IndexIsMixedRadix ==
    (IsIndexCall /\ IsRearrangement(call.arg, Vals)) =>
        /\ res.st = "ok"
        /\ res.index = RadixSum(ics, choose_, Len(ics), call.arg)
        /\ StepsCompact(ics, choose_, 1, call.arg, call.arg, scratch.tmp_vals)

\* three entries, the second and the third with a rank above 0
C14_Witness ==
    /\ IsIndexCall
    /\ IsRearrangement(call.arg, Vals)
    /\ Len(ics) = 3
    /\ RankOf(ics, choose_, 1, call.arg) > 0
    /\ RankOf(ics, choose_, 2, call.arg) > 0
    /\ SizeProduct(ics, 1) > 1
    /\ Without(ics, 1, call.arg) # SubSeq(call.arg, 1, ics[2].N)
    /\ res.index = RadixSum(ics, choose_, 3, call.arg)

----------------------------------------------------------------------------
(* Properties of a single ItemCount *)

IsItemIndexCall == phase = "item" /\ call.op = "ItemIndex"
IsItemGetCall == phase = "item" /\ call.op = "ItemGet"

\* the slots, among the first N, in which the buffer holds the symbol
Occupied(ic, buffer) == {i \in 1..ic.N : buffer[i] = ic.Val}

\* the ways to place c copies in n slots
Placements(n, c) == {Q \in SUBSET (1..n) : Cardinality(Q) = c}

\* Q comes before P in lexicographic order, an occupied slot before an empty
\* one: at the first slot where they differ, Q is occupied
Precedes(Q, P, n) ==
    \E i \in 1..n :
        /\ i \in Q
        /\ i \notin P
        /\ \A j \in 1..(i - 1) : (j \in Q) = (j \in P)

\* the number of placements, of as many copies as P, that precede P
LexRank(n, P) ==
    Cardinality({Q \in Placements(n, Cardinality(P)) : Precedes(Q, P, n)})

\* the buffer with the symbol moved to the slots Q, something else in the
\* other slots and the elements beyond slot N as they are
Moved(ic, buffer, Q) ==
    [i \in 1..Len(buffer) |->
        IF i > ic.N THEN buffer[i]
        ELSE IF i \in Q THEN ic.Val
        ELSE CHOOSE s \in Symbols : s # ic.Val]

\* C15: for n slots and c copies, and every buffer whose first n elements
\* hold the symbol exactly c times, the rank is in [0, C(n, c)) and is the
\* number of placements that precede the buffer's in lexicographic order
\* (occupied before empty); another placement has another rank; every lookup
\* is within the table, with a first argument of at least 1.
C15_RankIsLexicographic ==
    (IsItemIndexCall /\ Cardinality(Occupied(ics[1], call.arg)) = ics[1].C) =>
        LET ic == ics[1]
            P == Occupied(ic, call.arg)
        IN  /\ res.st = "ok"
            /\ 0 <= res.index
            /\ res.index < Binomial(ic.N, ic.C)
            /\ res.index = LexRank(ic.N, P)
            /\ \A Q \in Placements(ic.N, ic.C) \ {P} :
                  ItemCountIndexImpl(ic, choose_, Moved(ic, call.arg, Q)).ret
                      # res.index
            /\ \A l \in ItemCountIndexImpl(ic, choose_, call.arg).lookups :
                  /\ 1 <= l[1]
                  /\ l[1] <= choose_.N
                  /\ 0 <= l[2]
                  /\ l[2] <= choose_.M

\* two copies in four slots, the smallest table, an element beyond the
\* slots that holds the symbol too
C15_Witness ==
    /\ IsItemIndexCall
    /\ ics[1].N = 4
    /\ ics[1].C = 2
    /\ choose_.N = 4
    /\ choose_.M = 2
    /\ Len(call.arg) = 5
    /\ Occupied(ics[1], call.arg) = {2, 4}
    /\ res.st = "ok"
    /\ res.index = 4
    /\ ItemCountIndexImpl(ics[1], choose_, call.arg).lookups # {}

\* the positions a call of ItemCount::Get filled
Written == {j \in 1..Len(call.filled) : ~call.filled[j] /\ scratch.filled[j]}

\* C16: for n slots and c copies, every index in [0, C(n, c)) and every
\* bitmap with exactly n positions not filled, ItemCount::Get writes the
\* symbol into exactly c positions that were not filled and marks them
\* filled, leaves the value and the flag of every other position as they
\* were, and ends with no copy left (the closing assert holds); after
\* operator[] has run it for every entry, every position is filled.
C16_GetFillsExactlyC ==
    /\ (IsItemGetCall /\ call.index < Binomial(ics[1].N, ics[1].C)) =>
          /\ Cardinality({j \in 1..Len(call.filled) : ~call.filled[j]}) = ics[1].N
          /\ res.st = "ok"
          /\ ItemCountGet(ics[1], choose_, call.index, call.arg,
                          call.filled).remain_cnt = 0
          /\ Len(res.array) = Len(call.arg)
          /\ Len(scratch.filled) = Len(call.filled)
          /\ Cardinality(Written) = ics[1].C
          /\ \A j \in Written : res.array[j] = ics[1].Val
          /\ \A j \in (1..Len(call.arg)) \ Written :
                /\ res.array[j] = call.arg[j]
                /\ scratch.filled[j] = call.filled[j]
    /\ (IsGetCall /\ call.index < Size(ics, NDEBUG).index) =>
          /\ res.st = "ok"
          /\ Len(scratch.filled) = Len(Vals)
          /\ \A j \in 1..Len(Vals) : scratch.filled[j]

\* item_count_operator_test: index 1 of two copies in three slots, written
\* around two positions that were filled
C16_Witness ==
    /\ IsItemGetCall
    /\ ics[1].N = 3
    /\ ics[1].C = 2
    /\ call.index = 1
    /\ call.filled = <<FALSE, TRUE, FALSE, TRUE, FALSE>>
    /\ call.arg[1] # ics[1].Val
    /\ res.st = "ok"
    /\ Written = {1, 5}
    /\ res.array = [call.arg EXCEPT ![1] = ics[1].Val, ![5] = ics[1].Val]
    /\ scratch.filled = <<TRUE, TRUE, FALSE, TRUE, TRUE>>

====
